---- MODULE Spec2Model ----
(***************************************************************************)
(* Model of src/index.js: the asynchronous tcomb-validation `validate`.    *)
(*                                                                         *)
(* validate is a pure function of (x, type, options); every `await` in it  *)
(* is awaited before the next statement runs, so a call is one             *)
(* deterministic depth-first traversal.  Each validator is an operator     *)
(* computed as the code computes it; the `for` loops are recursive         *)
(* operators over the loop index.                                          *)
(*                                                                         *)
(* JavaScript values are tagged records:                                   *)
(*   undefined, null, numbers, strings, arrays (a sequence of items) and   *)
(*   objects (the constructor name `cls` plus the own enumerable           *)
(*   properties as a sequence of [k, v] in insertion order).               *)
(* A type descriptor is a record of its name and its `meta` object.         *)
(* A path segment is Idx(i) (a number) or Key(k) (a string).               *)
(*                                                                         *)
(* Instrumentation (not part of the program's data): the records the       *)
(* validators pass upward also carry `threw` (a TypeError raised by the    *)
(* engine propagates through every awaiting caller), `calls` (the log of   *)
(* recurse calls) and `preds` (the log of predicate evaluations); the      *)
(* parameter g counts the container levels and the unions crossed.         *)
(* ValidationResult keeps only errors and value, as t.struct does.         *)
(***************************************************************************)
EXTENDS Integers, Sequences, FiniteSets, TLC

\* in_x, in_type, in_options: the arguments of the validate call;
\* pc: where the caller stands; result: the ValidationResult of the call;
\* calls, preds: the logs of that call; again: the ValidationResult of
\* validating result.value once more
VARIABLES in_x, in_type, in_options, pc, result, calls, preds, again

vars == <<in_x, in_type, in_options, pc, result, calls, preds, again>>

(* ------------------------------ bounds -------------------------------- *)

\* longest input array
MaxLen == 3
\* largest number among the input values
MaxNum == 2

(* ------------------------------ values -------------------------------- *)

Undefined == [t |-> "undefined"]
Null == [t |-> "null"]
Num(n) == [t |-> "number", n |-> n]
Str(s) == [t |-> "string", s |-> s]
Arr(items) == [t |-> "array", items |-> items]
Obj(cls, fields) == [t |-> "object", cls |-> cls, fields |-> fields]
Field(k, v) == [k |-> k, v |-> v]

Idx(i) == [i |-> i]
Key(k) == [k |-> k]

\* x.hasOwnProperty(k)
HasOwn(o, k) == \E i \in DOMAIN o.fields : o.fields[i].k = k

\* x[k] of an object: undefined when the property is absent
Get(o, k) ==
    IF HasOwn(o, k)
    THEN o.fields[CHOOSE i \in DOMAIN o.fields : o.fields[i].k = k].v
    ELSE Undefined

\* ret.value[k] = v
Put(o, k, v) ==
    IF HasOwn(o, k)
    THEN [o EXCEPT !.fields =
            [i \in DOMAIN o.fields |->
                IF o.fields[i].k = k THEN Field(k, v) ELSE o.fields[i]]]
    ELSE [o EXCEPT !.fields = Append(o.fields, Field(k, v))]

\* x[i] of an array, i counted from 0: undefined beyond the length
At(a, i) == IF i < Len(a.items) THEN a.items[i + 1] ELSE Undefined

(* --------------------------- type descriptors -------------------------- *)

\* A type descriptor carries its display name and, unless it is a plain
\* class, its meta object.
Type(name, meta) == [name |-> name, meta |-> meta]
Class(name) == [name |-> name]
Prop(name, ty) == [name |-> name, type |-> ty]
NoDefaults == <<>>

Number == Type("Number", [kind |-> "irreducible"])
String == Type("String", [kind |-> "irreducible"])
Nil == Type("Nil", [kind |-> "irreducible"])
Color == Type("Color", [kind |-> "enums", map |-> {"a"}])
Klass == Class("Klass")
ListOfNumber == Type("ListOfNumber", [kind |-> "list", type |-> Number])
ListOfKlass == Type("ListOfKlass", [kind |-> "list", type |-> Klass])
MaybeNumber == Type("MaybeNumber", [kind |-> "maybe", type |-> Number])
MaybeString == Type("MaybeString", [kind |-> "maybe", type |-> String])
Positive == Type("Positive", [kind |-> "subtype", type |-> Number])
Inner ==
    Type("Inner", [kind |-> "struct", strict |-> FALSE,
                   props |-> <<Prop("g", Number)>>,
                   defaultProps |-> <<Field("g", Num(0))>>])
InnerPos == Type("InnerPos", [kind |-> "subtype", type |-> Inner])
ListOfInner == Type("ListOfInner", [kind |-> "list", type |-> Inner])
Outer ==
    Type("Outer", [kind |-> "struct", strict |-> FALSE,
                   props |-> <<Prop("a", Number), Prop("f", Inner)>>,
                   defaultProps |-> <<Field("f", Obj("Object", <<>>))>>])
StrictA ==
    Type("StrictA", [kind |-> "struct", strict |-> TRUE,
                     props |-> <<Prop("a", Number)>>,
                     defaultProps |-> NoDefaults])
IFace ==
    Type("IFace", [kind |-> "interface", strict |-> FALSE,
                   props |-> <<Prop("a", Number), Prop("b", MaybeString)>>])
StrictIFace ==
    Type("StrictIFace", [kind |-> "interface", strict |-> TRUE,
                         props |-> <<Prop("a", MaybeNumber)>>])
Pair == Type("Pair", [kind |-> "tuple", types |-> <<Number, String>>])
PairOpt == Type("PairOpt", [kind |-> "tuple", types |-> <<Number, MaybeString>>])
Dict == Type("Dict", [kind |-> "dict", domain |-> Color, codomain |-> Number])
DictOfInner ==
    Type("DictOfInner", [kind |-> "dict", domain |-> String, codomain |-> Inner])
NumOrStr == Type("NumOrStr", [kind |-> "union", types |-> <<Number, String>>])
InnerOrNum == Type("InnerOrNum", [kind |-> "union", types |-> <<Inner, Number>>])
Shape == Type("Shape", [kind |-> "union", types |-> <<ListOfNumber, Inner>>])
NumAndPos ==
    Type("NumAndPos", [kind |-> "intersection", types |-> <<Number, Positive>>])
TwoStructs ==
    Type("TwoStructs", [kind |-> "intersection", types |-> <<Inner, StrictA>>])
WithKlass ==
    Type("WithKlass", [kind |-> "intersection", types |-> <<IFace, Klass>>])
ListOfMixed == Type("ListOfMixed", [kind |-> "list", type |-> WithKlass])

\* t.isType(type): a function that carries a meta object
IsType(ty) == "meta" \in DOMAIN ty

\* t.Function.is(ctor); an unresolved dispatch yields NoCtor (undefined)
NoCtor == [name |-> "undefined", undefined |-> TRUE]
FunctionIs(f) == "undefined" \notin DOMAIN f

\* t.Array.is, t.Object.is, t.Nil.is
ArrayIs(v) == v.t = "array"
ObjectIs(v) == v.t = "object"
NilIs(v) == v.t \in {"undefined", "null"}

\* x instanceof type
InstanceOf(v, ty) == v.t = "object" /\ v.cls = ty.name

\* type.is(x) of an irreducible, an enums, a struct or a plain class
Is(ty, v) ==
    CASE ty.name = "Number" -> v.t = "number"
      [] ty.name = "String" -> v.t = "string"
      [] ty.name = "Nil" -> NilIs(v)
      [] IsType(ty) /\ ty.meta.kind = "enums" -> v.t = "string" /\ v.s \in ty.meta.map
      [] OTHER -> InstanceOf(v, ty)

\* type.meta.predicate(value, context) of the two refinements
Predicate(ty, v, context) ==
    CASE ty.name = "Positive" -> v.n > 0
      [] ty.name = "InnerPos" -> Get(v, "g").n > 0

\* types.indexOf(ctor), counted from 0; -1 when absent
IndexOf(types, ctor) ==
    IF \E i \in DOMAIN types : types[i] = ctor
    THEN (CHOOSE i \in DOMAIN types :
            types[i] = ctor /\ \A j \in 1..(i - 1) : types[j] # ctor) - 1
    ELSE -1

\* type.dispatch(x): the default is the first member whose is() accepts x;
\* Shape declares its own, by the shape of x
Dispatch(ty, v) ==
    IF ty.name = "Shape"
    THEN IF ArrayIs(v) THEN ty.meta.types[1]
         ELSE IF ObjectIs(v) THEN ty.meta.types[2]
         ELSE NoCtor
    ELSE LET types == ty.meta.types
             hits == {i \in DOMAIN types : Is(types[i], v)}
         IN IF hits = {} THEN NoCtor
            ELSE types[CHOOSE i \in hits : \A j \in hits : i <= j]

\* new type(value) of a struct: the assembled object as an instance of type
New(ty, v) == Obj(ty.name, v.fields)

(* ------------------------------ options ------------------------------- *)

NoOptions == [kind |-> "undefined"]
ArrayOptions(p) == [kind |-> "array", items |-> p]
ObjectOptions(own, p, s) ==
    [kind |-> "object", own |-> own, path |-> p, strict |-> s, context |-> Undefined]

\* options.hasOwnProperty(k)
OptionsHas(o, k) == o.kind = "object" /\ k \in o.own
\* options.strict, options.context: undefined unless the object carries them
OptionsStrict(o) == IF OptionsHas(o, "strict") THEN o.strict ELSE FALSE
OptionsContext(o) == IF OptionsHas(o, "context") THEN o.context ELSE Undefined

(* ---------------------- ValidationError / Result ----------------------- *)

\* t.getTypeName(expected): the descriptor's display name
getTypeName(expected) == expected.name

\* 'Invalid value ' + stringify(actual) + ' supplied to ' + to, kept as its parts
getDefaultValidationErrorMessage(actual, expected, path) ==
    LET expectedName == getTypeName(expected)
        to == IF Len(path) # 0
              THEN [path |-> path, name |-> expectedName]
              ELSE [name |-> expectedName]
    IN [actual |-> actual, to |-> to]

\* no descriptor of the model declares getValidationErrorMessage
getValidationErrorMessage(actual, expected, path, context) ==
    getDefaultValidationErrorMessage(actual, expected, path)

ValidationErrorOf(actual, expected, path, context) ==
    [message |-> getValidationErrorMessage(actual, expected, path, context),
     actual |-> actual,
     expected |-> expected,
     path |-> path]

ValidationResult(r) == [errors |-> r.errors, value |-> r.value]

isValid(r) == ~(Len(r.errors) # 0)

firstError(r) == IF isValid(r) THEN Null ELSE r.errors[1]

(* --------------------------- instrumentation --------------------------- *)

Root == [depth |-> 0, unions |-> 0]
Deeper(g) == [g EXCEPT !.depth = @ + 1]
ViaUnion(g) == [g EXCEPT !.unions = @ + 1]

\* {value, errors} as a validator returns it
Ret(value, errors) ==
    [value |-> value, errors |-> errors, threw |-> FALSE,
     calls |-> <<>>, preds |-> <<>>]

\* the common failure shape {value: x, errors: [ValidationError.of(...)]}
Fail(x, type, path, options) ==
    Ret(x, <<ValidationErrorOf(x, type, path, OptionsContext(options))>>)

\* ret after `item` was awaited: value replaced, item's errors concatenated
Merge(ret, item, value) ==
    [value |-> value, errors |-> ret.errors \o item.errors, threw |-> FALSE,
     calls |-> ret.calls \o item.calls, preds |-> ret.preds \o item.preds]

\* an awaited call threw: the exception leaves the validator
Rethrow(ret, item) ==
    [ret EXCEPT !.threw = TRUE,
                !.calls = ret.calls \o item.calls,
                !.preds = ret.preds \o item.preds]

\* reading a property of undefined raises a TypeError
TypeError(ret) == [ret EXCEPT !.threw = TRUE]

(* ------------------------------ validators ----------------------------- *)

RECURSIVE recurse(_, _, _, _, _)
RECURSIVE ListLoop(_, _, _, _, _, _, _)
RECURSIVE StructProps(_, _, _, _, _, _, _)
RECURSIVE StructStrict(_, _, _, _, _, _)
RECURSIVE TupleLoop(_, _, _, _, _, _, _)
RECURSIVE DictLoop(_, _, _, _, _, _, _)
RECURSIVE IntersectionLoop(_, _, _, _, _, _, _)
RECURSIVE InterfaceProps(_, _, _, _, _, _, _)
RECURSIVE InterfaceStrict(_, _, _, _, _, _)

validateES6Classes(x, type, path, options, g) ==
    Ret(x, IF InstanceOf(x, type)
           THEN <<>>
           ELSE <<ValidationErrorOf(x, type, path, OptionsContext(options))>>)

\* irreducibles and enums
validateIrreducible(x, type, path, options, g) ==
    Ret(x, IF Is(type, x)
           THEN <<>>
           ELSE <<ValidationErrorOf(x, type, path, OptionsContext(options))>>)

\* ListLoop leaving the loop at the first element that fails
ListLoop_StopsAtFirstError(x, type, path, options, g, i, ret) ==
    IF ~(i < Len(x.items)) \/ Len(ret.errors) # 0 THEN ret
    ELSE LET item == recurse(At(x, i), type.meta.type, path \o <<Idx(i)>>,
                             options, Deeper(g))
         IN IF item.threw THEN Rethrow(ret, item)
            ELSE ListLoop(x, type, path, options, g, i + 1,
                          Merge(ret, item, Arr(Append(ret.value.items, item.value))))

\* ListLoop with the bound i < len - 1
ListLoop_DropsLast(x, type, path, options, g, i, ret) ==
    IF ~(i < Len(x.items) - 1) THEN ret
    ELSE LET item == recurse(At(x, i), type.meta.type, path \o <<Idx(i)>>,
                             options, Deeper(g))
         IN IF item.threw THEN Rethrow(ret, item)
            ELSE ListLoop(x, type, path, options, g, i + 1,
                          Merge(ret, item, Arr(Append(ret.value.items, item.value))))

\* for (var i = 0, len = x.length; i < len; i++)
ListLoop(x, type, path, options, g, i, ret) ==
    IF ~(i < Len(x.items)) THEN ret
    ELSE LET item == recurse(At(x, i), type.meta.type, path \o <<Idx(i)>>,
                             options, Deeper(g))
         IN IF item.threw THEN Rethrow(ret, item)
            ELSE ListLoop(x, type, path, options, g, i + 1,
                          Merge(ret, item, Arr(Append(ret.value.items, item.value))))

validateList(x, type, path, options, g) ==
    IF ~ArrayIs(x) THEN Fail(x, type, path, options)
    ELSE ListLoop(x, type, path, options, g, 0, Ret(Arr(<<>>), <<>>))

\* validateSubtype reporting the inner type as the expected one
validateSubtype_ExpectsInner(x, type, path, options, g) ==
    LET ret == recurse(x, type.meta.type, path, options, g)
    IN IF ret.threw \/ Len(ret.errors) # 0 THEN ret
       ELSE LET seen == [ret EXCEPT !.preds =
                            Append(@, [type |-> type, value |-> ret.value])]
            IN IF ~Predicate(type, ret.value, OptionsContext(options))
               THEN [seen EXCEPT !.errors =
                        <<ValidationErrorOf(x, type.meta.type, path,
                                            OptionsContext(options))>>]
               ELSE seen

validateSubtype(x, type, path, options, g) ==
    LET ret == recurse(x, type.meta.type, path, options, g)
    IN IF ret.threw \/ Len(ret.errors) # 0 THEN ret
       ELSE LET seen == [ret EXCEPT !.preds =
                            Append(@, [type |-> type, value |-> ret.value])]
            IN IF ~Predicate(type, ret.value, OptionsContext(options))
               THEN [seen EXCEPT !.errors =
                        <<ValidationErrorOf(x, type, path, OptionsContext(options))>>]
               ELSE seen

\* validateMaybe extending the path as a container does
validateMaybe_ExtendsPath(x, type, path, options, g) ==
    IF NilIs(x) THEN Ret(x, <<>>)
    ELSE recurse(x, type.meta.type, path \o <<Idx(0)>>, options, g)

validateMaybe(x, type, path, options, g) ==
    IF NilIs(x) THEN Ret(x, <<>>)
    ELSE recurse(x, type.meta.type, path, options, g)

\* StructProps without `if (actual === undefined) actual = defaultProps[name]`
StructProps_NoDefaults(x, type, path, options, g, n, ret) ==
    LET props == type.meta.props
    IN IF n > Len(props) THEN ret
       ELSE LET name == props[n].name
                prop == recurse(Get(x, name), props[n].type, path \o <<Key(name)>>,
                                options, Deeper(g))
            IN IF prop.threw THEN Rethrow(ret, prop)
               ELSE StructProps(x, type, path, options, g, n + 1,
                                Merge(ret, prop, Put(ret.value, name, prop.value)))

\* for (var name in props), n-th declared prop
StructProps(x, type, path, options, g, n, ret) ==
    LET props == type.meta.props
        defaultProps == Obj("Object", type.meta.defaultProps)
    IN IF n > Len(props) THEN ret
       ELSE LET name == props[n].name
                actual == IF Get(x, name) = Undefined
                          THEN Get(defaultProps, name)
                          ELSE Get(x, name)
                prop == recurse(actual, props[n].type, path \o <<Key(name)>>,
                                options, Deeper(g))
            IN IF prop.threw THEN Rethrow(ret, prop)
               ELSE StructProps(x, type, path, options, g, n + 1,
                                Merge(ret, prop, Put(ret.value, name, prop.value)))

\* for (var field in x), n-th own property of x; yields the error list
StructStrict(x, type, path, options, n, errors) ==
    IF n > Len(x.fields) THEN errors
    ELSE LET field == x.fields[n].k
             declared == \E i \in DOMAIN type.meta.props :
                             type.meta.props[i].name = field
         IN StructStrict(x, type, path, options, n + 1,
                IF ~declared
                THEN Append(errors,
                            ValidationErrorOf(x.fields[n].v, Nil,
                                              path \o <<Key(field)>>,
                                              OptionsContext(options)))
                ELSE errors)

\* validateStruct reading strict from the descriptor alone
validateStruct_IgnoresOptionsStrict(x, type, path, options, g) ==
    IF ~ObjectIs(x) THEN Fail(x, type, path, options)
    ELSE IF Is(type, x) THEN Ret(x, <<>>)
    ELSE LET ret == StructProps(x, type, path, options, g, 1,
                                Ret(Obj("Object", <<>>), <<>>))
             strict == type.meta.strict
             checked == IF strict
                        THEN [ret EXCEPT !.errors =
                                StructStrict(x, type, path, options, 1, ret.errors)]
                        ELSE ret
         IN IF ret.threw THEN ret
            ELSE IF ~(Len(checked.errors) # 0)
                 THEN [checked EXCEPT !.value = New(type, checked.value)]
                 ELSE checked

\* validateStruct wrapping the assembled object whether or not errors exist
validateStruct_WrapsAlways(x, type, path, options, g) ==
    IF ~ObjectIs(x) THEN Fail(x, type, path, options)
    ELSE IF Is(type, x) THEN Ret(x, <<>>)
    ELSE LET ret == StructProps(x, type, path, options, g, 1,
                                Ret(Obj("Object", <<>>), <<>>))
             strict == IF OptionsHas(options, "strict")
                       THEN OptionsStrict(options)
                       ELSE type.meta.strict
             checked == IF strict
                        THEN [ret EXCEPT !.errors =
                                StructStrict(x, type, path, options, 1, ret.errors)]
                        ELSE ret
         IN IF ret.threw THEN ret
            ELSE [checked EXCEPT !.value = New(type, checked.value)]

validateStruct(x, type, path, options, g) ==
    IF ~ObjectIs(x) THEN Fail(x, type, path, options)
    ELSE IF Is(type, x) THEN Ret(x, <<>>)
    ELSE LET ret == StructProps(x, type, path, options, g, 1,
                                Ret(Obj("Object", <<>>), <<>>))
             strict == IF OptionsHas(options, "strict")
                       THEN OptionsStrict(options)
                       ELSE type.meta.strict
             checked == IF strict
                        THEN [ret EXCEPT !.errors =
                                StructStrict(x, type, path, options, 1, ret.errors)]
                        ELSE ret
         IN IF ret.threw THEN ret
            ELSE IF ~(Len(checked.errors) # 0)
                 THEN [checked EXCEPT !.value = New(type, checked.value)]
                 ELSE checked

\* TupleLoop running over the input's length instead of types.length
TupleLoop_OverInput(x, type, path, options, g, i, ret) ==
    LET types == type.meta.types
    IN IF ~(i < Len(x.items)) THEN ret
       ELSE LET item == recurse(At(x, i), types[i + 1], path \o <<Idx(i)>>,
                                options, Deeper(g))
            IN IF item.threw THEN Rethrow(ret, item)
               ELSE TupleLoop(x, type, path, options, g, i + 1,
                              Merge(ret, item, Arr(Append(ret.value.items, item.value))))

\* for (var i = 0; i < len; i++)
TupleLoop(x, type, path, options, g, i, ret) ==
    LET types == type.meta.types
        len == Len(types)
    IN IF ~(i < len) THEN ret
       ELSE LET item == recurse(At(x, i), types[i + 1], path \o <<Idx(i)>>,
                                options, Deeper(g))
            IN IF item.threw THEN Rethrow(ret, item)
               ELSE TupleLoop(x, type, path, options, g, i + 1,
                              Merge(ret, item, Arr(Append(ret.value.items, item.value))))

validateTuple(x, type, path, options, g) ==
    LET types == type.meta.types
        len == Len(types)
    IN IF ~ArrayIs(x) \/ Len(x.items) > len THEN Fail(x, type, path, options)
       ELSE TupleLoop(x, type, path, options, g, 0, Ret(Arr(<<>>), <<>>))

\* for (var k in x), n-th own property of x
DictLoop(x, type, path, options, g, n, ret) ==
    IF n > Len(x.fields) THEN ret
    ELSE LET k == x.fields[n].k
             subpath == path \o <<Key(k)>>
             key == recurse(Str(k), type.meta.domain, subpath, options, Deeper(g))
             item == recurse(x.fields[n].v, type.meta.codomain, subpath,
                             options, Deeper(g))
         IN IF key.threw THEN Rethrow(ret, key)
            ELSE IF item.threw THEN Rethrow(Merge(ret, key, ret.value), item)
            ELSE DictLoop(x, type, path, options, g, n + 1,
                          Merge(Merge(ret, key, ret.value), item,
                                Put(ret.value, k, item.value)))

validateDict(x, type, path, options, g) ==
    IF ~ObjectIs(x) THEN Fail(x, type, path, options)
    ELSE DictLoop(x, type, path, options, g, 1, Ret(Obj("Object", <<>>), <<>>))

\* validateUnion recursing at the union's own path
validateUnion_SamePath(x, type, path, options, g) ==
    LET ctor == Dispatch(type, x)
    IN IF FunctionIs(ctor)
       THEN recurse(x, ctor, path, options, ViaUnion(g))
       ELSE Fail(x, type, path, options)

validateUnion(x, type, path, options, g) ==
    LET ctor == Dispatch(type, x)
    IN IF FunctionIs(ctor)
       THEN recurse(x, ctor, path \o <<Idx(IndexOf(type.meta.types, ctor))>>,
                    options, ViaUnion(g))
       ELSE Fail(x, type, path, options)

\* for (var i = 0; i < len; i++); acc is [ret, nrOfStructs]
IntersectionLoop(x, type, path, options, g, i, acc) ==
    LET types == type.meta.types
        len == Len(types)
    IN IF ~(i < len) THEN acc
       ELSE IF ~IsType(types[i + 1])
            THEN [acc EXCEPT !.ret = TypeError(acc.ret)]
            ELSE LET nrOfStructs == IF types[i + 1].meta.kind = "struct"
                                    THEN acc.nrOfStructs + 1
                                    ELSE acc.nrOfStructs
                     item == recurse(x, types[i + 1], path, options, g)
                 IN IF item.threw
                    THEN [acc EXCEPT !.ret = Rethrow(acc.ret, item)]
                    ELSE IntersectionLoop(x, type, path, options, g, i + 1,
                            [ret |-> Merge(acc.ret, item, acc.ret.value),
                             nrOfStructs |-> nrOfStructs])

validateIntersection(x, type, path, options, g) ==
    LET acc == IntersectionLoop(x, type, path, options, g, 0,
                                [ret |-> Ret(x, <<>>), nrOfStructs |-> 0])
        ret == acc.ret
    IN IF ret.threw THEN ret
       ELSE IF acc.nrOfStructs > 1
            THEN [ret EXCEPT !.errors =
                    Append(@, ValidationErrorOf(x, type, path, OptionsContext(options)))]
            ELSE ret

\* for (var name in props), n-th declared prop
InterfaceProps(x, type, path, options, g, n, ret) ==
    LET props == type.meta.props
    IN IF n > Len(props) THEN ret
       ELSE LET name == props[n].name
                prop == recurse(Get(x, name), props[n].type, path \o <<Key(name)>>,
                                options, Deeper(g))
            IN IF prop.threw THEN Rethrow(ret, prop)
               ELSE InterfaceProps(x, type, path, options, g, n + 1,
                                   Merge(ret, prop, Put(ret.value, name, prop.value)))

\* for (var field in x), n-th property of x; yields the error list
InterfaceStrict(x, type, path, options, n, errors) ==
    IF n > Len(x.fields) THEN errors
    ELSE LET field == x.fields[n].k
             declared == \E i \in DOMAIN type.meta.props :
                             type.meta.props[i].name = field
         IN InterfaceStrict(x, type, path, options, n + 1,
                IF ~declared /\ ~NilIs(x.fields[n].v)
                THEN Append(errors,
                            ValidationErrorOf(x.fields[n].v, Nil,
                                              path \o <<Key(field)>>,
                                              OptionsContext(options)))
                ELSE errors)

validateInterface(x, type, path, options, g) ==
    IF ~ObjectIs(x) THEN Fail(x, type, path, options)
    ELSE LET ret == InterfaceProps(x, type, path, options, g, 1,
                                   Ret(Obj("Object", <<>>), <<>>))
             strict == IF OptionsHas(options, "strict")
                       THEN OptionsStrict(options)
                       ELSE type.meta.strict
         IN IF ret.threw THEN ret
            ELSE IF strict
                 THEN [ret EXCEPT !.errors =
                         InterfaceStrict(x, type, path, options, 1, ret.errors)]
                 ELSE ret

\* validators[type.meta.kind]
validators(kind, x, type, path, options, g) ==
    CASE kind = "irreducible" -> validateIrreducible(x, type, path, options, g)
      [] kind = "enums" -> validateIrreducible(x, type, path, options, g)
      [] kind = "list" -> validateList(x, type, path, options, g)
      [] kind = "subtype" -> validateSubtype(x, type, path, options, g)
      [] kind = "maybe" -> validateMaybe(x, type, path, options, g)
      [] kind = "struct" -> validateStruct(x, type, path, options, g)
      [] kind = "tuple" -> validateTuple(x, type, path, options, g)
      [] kind = "dict" -> validateDict(x, type, path, options, g)
      [] kind = "union" -> validateUnion(x, type, path, options, g)
      [] kind = "intersection" -> validateIntersection(x, type, path, options, g)
      [] kind = "interface" -> validateInterface(x, type, path, options, g)

recurse(x, type, path, options, g) ==
    LET ret == IF IsType(type)
               THEN validators(type.meta.kind, x, type, path, options, g)
               ELSE validateES6Classes(x, type, path, options, g)
    IN [ret EXCEPT !.calls =
            <<[x |-> x, type |-> type, path |-> path,
               depth |-> g.depth, unions |-> g.unions]>> \o @]

\* options = options || {}; path = t.Array.is(options) ? options : options.path || []
InitialPath(options) ==
    IF options.kind = "array" THEN options.items
    ELSE IF OptionsHas(options, "path") THEN options.path
    ELSE <<>>

\* the awaited recurse of validate, before it is wrapped
validateRaw(x, type, options) ==
    LET opts == IF options.kind = "undefined"
                THEN ObjectOptions({}, <<>>, FALSE)
                ELSE options
    IN recurse(x, type, InitialPath(opts), opts, Root)

validate(x, type, options) == ValidationResult(validateRaw(x, type, options))

(* ---------------------------- state machine ---------------------------- *)

Descriptors ==
    {Number, String, Nil, Color, Klass, ListOfNumber, ListOfKlass, ListOfInner,
     ListOfMixed, MaybeNumber, MaybeString, Positive, InnerPos, Inner, Outer,
     StrictA, IFace, StrictIFace, Pair, PairOpt, Dict, DictOfInner, NumOrStr,
     InnerOrNum, Shape, NumAndPos, TwoStructs, WithKlass}

Nums == {Num(n) : n \in 0..MaxNum}
Leafs == {Undefined, Null, Str("a"), Str("b")} \cup Nums

\* instances as their constructors build them
Instances ==
    {Obj("Klass", <<>>)} \cup {Obj("Inner", <<Field("g", n)>>) : n \in Nums}

FieldVals ==
    {Undefined, Str("a"), Obj("Object", <<>>)} \cup {Num(n) : n \in 1..MaxNum}
KeySeqs == {<<>>, <<"a">>, <<"g">>, <<"a", "b">>, <<"b", "a">>, <<"a", "f">>}
PlainObjects ==
    UNION {{Obj("Object", [i \in 1..Len(ks) |-> Field(ks[i], vs[i])]) :
               vs \in [1..Len(ks) -> FieldVals]} : ks \in KeySeqs}

ElemVals ==
    {Undefined, Num(1), Str("a"), Obj("Object", <<>>),
     Obj("Object", <<Field("g", Str("a"))>>)}
Arrays == {Arr(s) : s \in UNION {[1..n -> ElemVals] : n \in 0..MaxLen}}

Values == Leafs \cup Instances \cup PlainObjects \cup Arrays

Options ==
    {NoOptions,
     ObjectOptions({"strict"}, <<>>, TRUE),
     ObjectOptions({"strict"}, <<>>, FALSE),
     ObjectOptions({"path"}, <<Key("root")>>, FALSE),
     ArrayOptions(<<Key("root")>>)}

NoResult == [errors |-> <<>>, value |-> Undefined]

Init ==
    /\ in_x \in Values
    /\ in_type \in Descriptors
    /\ in_options \in Options
    /\ pc = "start"
    /\ result = NoResult
    /\ calls = <<>>
    /\ preds = <<>>
    /\ again = NoResult

\* the caller awaits validate(x, type, options)
Validate ==
    /\ pc = "start"
    /\ LET ret == validateRaw(in_x, in_type, in_options)
       IN /\ pc' = IF ret.threw THEN "rejected" ELSE "returned"
          /\ result' = IF ret.threw THEN NoResult ELSE ValidationResult(ret)
          /\ calls' = ret.calls
          /\ preds' = ret.preds
    /\ UNCHANGED <<in_x, in_type, in_options, again>>

\* the caller awaits validate(result.value, type, options)
Revalidate ==
    /\ pc = "returned"
    /\ LET ret == validateRaw(result.value, in_type, in_options)
       IN /\ pc' = IF ret.threw THEN "rejected_again" ELSE "revalidated"
          /\ again' = IF ret.threw THEN NoResult ELSE ValidationResult(ret)
    /\ UNCHANGED <<in_x, in_type, in_options, result, calls, preds>>

Next == Validate \/ Revalidate

Spec == Init /\ [][Next]_vars

(* ------------------------- shared by the claims ------------------------ *)

\* validate has returned a ValidationResult (and the caller may have gone on)
Returned == pc \in {"returned", "revalidated", "rejected_again"}

Kind == IF IsType(in_type) THEN in_type.meta.kind ELSE "class"

\* the path the call starts from
Path0 == InitialPath(in_options)

\* in_options with the initial path replaced by p
OptionsAt(p) ==
    CASE in_options.kind = "array" -> ArrayOptions(p)
      [] in_options.kind = "undefined" -> ObjectOptions({"path"}, p, FALSE)
      [] OTHER -> [in_options EXCEPT !.own = @ \cup {"path"}, !.path = p]

\* a direct validate call on a child v of the input, at Path0 extended by seg
Child(v, ty, seg) == validate(v, ty, OptionsAt(Path0 \o <<seg>>))

RECURSIVE ConcatErrors(_)
ConcatErrors(rs) ==
    IF rs = <<>> THEN <<>> ELSE Head(rs).errors \o ConcatErrors(Tail(rs))

RECURSIVE SumErrors(_)
SumErrors(rs) ==
    IF rs = <<>> THEN 0 ELSE Len(Head(rs).errors) + SumErrors(Tail(rs))

\* exactly one error, reported at the call's own path against its own descriptor
OneOwnError(r) ==
    /\ Len(r.errors) = 1
    /\ r.errors[1].path = Path0
    /\ r.errors[1].expected = in_type

(* ---------------------------------- C1 --------------------------------- *)

ListElements ==
    [i \in 1..Len(in_x.items) |->
        Child(in_x.items[i], in_type.meta.type, Idx(i - 1))]

\* C1: validating an array against a list descriptor validates every element
\* at path+[i] without stopping at a failure: the errors are the element
\* results' errors concatenated in index order (their count is the sum of the
\* element counts) and the value is an array of the input's length whose
\* i-th entry is the i-th element's result value.
C1_ListAggregatesAll ==
    (Returned /\ Kind = "list" /\ ArrayIs(in_x)) =>
        /\ result.errors = ConcatErrors(ListElements)
        /\ Len(result.errors) = SumErrors(ListElements)
        /\ ArrayIs(result.value)
        /\ Len(result.value.items) = Len(in_x.items)
        /\ \A i \in 1..Len(in_x.items) :
               result.value.items[i] = ListElements[i].value

\* a list whose first element fails and whose later elements fail too
C1_Witness ==
    /\ Returned /\ Kind = "list" /\ ArrayIs(in_x)
    /\ Len(in_x.items) = MaxLen
    /\ Len(ListElements[1].errors) > 0
    /\ Len(result.errors) = MaxLen

(* ---------------------------------- C6 --------------------------------- *)

TupleSlots ==
    [i \in 1..Len(in_type.meta.types) |->
        Child(At(in_x, i - 1), in_type.meta.types[i], Idx(i - 1))]

\* C6: a tuple input that is no array or is longer than types.length yields
\* exactly one error, at the tuple's own path against the tuple descriptor;
\* otherwise each of the types.length slots is validated at path+[i] (a slot
\* beyond the input validates undefined), the slot errors are all kept and
\* the value has types.length entries.  [1] against [Number, String] yields
\* one error, at slot 1.
C6_TupleSlots ==
    (Returned /\ Kind = "tuple") =>
        /\ IF ~ArrayIs(in_x) \/ Len(in_x.items) > Len(in_type.meta.types)
           THEN OneOwnError(result)
           ELSE /\ result.errors = ConcatErrors(TupleSlots)
                /\ ArrayIs(result.value)
                /\ Len(result.value.items) = Len(in_type.meta.types)
                /\ \A i \in DOMAIN TupleSlots :
                       result.value.items[i] = TupleSlots[i].value
        /\ (in_type.name = "Pair" /\ in_x = Arr(<<Num(1)>>)) =>
               /\ Len(result.errors) = 1
               /\ result.errors[1].path = Path0 \o <<Idx(1)>>

\* the scenario of the claim: a one-item array against the two-slot tuple
C6_Witness ==
    /\ Returned /\ in_type.name = "Pair" /\ in_x = Arr(<<Num(1)>>)
    /\ Len(result.errors) = 1
    /\ result.errors[1].actual = Undefined
    /\ Len(result.value.items) = 2

(* ---------------------------------- C4 --------------------------------- *)

SubtypeInner == validate(in_x, in_type.meta.type, in_options)

PredicateSeen == \E i \in DOMAIN preds : preds[i].type = in_type

\* C4: a subtype validates its inner type first, at the same path; inner
\* errors are returned unchanged and the predicate is not evaluated; with no
\* inner error and a false predicate the result has exactly one error, whose
\* expected is the subtype itself and whose path is the unextended path.
C4_SubtypeInnerFirst ==
    (Returned /\ Kind = "subtype") =>
        IF Len(SubtypeInner.errors) # 0
        THEN result.errors = SubtypeInner.errors /\ ~PredicateSeen
        ELSE ~Predicate(in_type, SubtypeInner.value, OptionsContext(in_options))
                => OneOwnError(result)

\* the inner struct accepts the input and the predicate rejects its value
C4_Witness ==
    /\ Returned /\ in_type.name = "InnerPos"
    /\ Len(SubtypeInner.errors) = 0
    /\ PredicateSeen
    /\ Len(result.errors) = 1

(* ---------------------------------- C5 --------------------------------- *)

UnionMember == Dispatch(in_type, in_x)

\* C5: a union whose dispatch resolves no member returns the value unchanged
\* with exactly one error, at the original path against the union; otherwise
\* the result is that of validating the value against the resolved member
\* with the path extended by the member's index in types.
C5_UnionDispatch ==
    (Returned /\ Kind = "union") =>
        IF ~FunctionIs(UnionMember)
        THEN result.value = in_x /\ OneOwnError(result)
        ELSE result = Child(in_x, UnionMember,
                            Idx(IndexOf(in_type.meta.types, UnionMember)))

\* the second member is resolved and reports an error below its index
C5_Witness ==
    /\ Returned /\ in_type.name = "Shape" /\ UnionMember.name = "Inner"
    /\ Len(result.errors) = 1
    /\ result.errors[1].path = Path0 \o <<Idx(1), Key("g")>>

(* ---------------------------------- C3 --------------------------------- *)

StrictInEffect ==
    IF OptionsHas(in_options, "strict")
    THEN OptionsStrict(in_options)
    ELSE in_type.meta.strict

Declared(k) == \E i \in DOMAIN in_type.meta.props : in_type.meta.props[i].name = k

Undeclared == {n \in DOMAIN in_x.fields : ~Declared(in_x.fields[n].k)}

ErrorsAt(p) == {j \in DOMAIN result.errors : result.errors[j].path = p}

\* C3: with strict in effect (options.strict when options carries the key,
\* else the descriptor's flag) a struct yields exactly one error per field
\* present on the input and not declared in props, with expected Nil and the
\* path extended by the field name.  {a: 1, b: 2} against the strict struct
\* declaring only a yields exactly one error, at [b].
C3_StrictUndeclared ==
    (Returned /\ Kind = "struct" /\ ObjectIs(in_x) /\ StrictInEffect) =>
        /\ \A n \in Undeclared :
              LET at == ErrorsAt(Path0 \o <<Key(in_x.fields[n].k)>>)
              IN /\ Cardinality(at) = 1
                 /\ \A j \in at :
                        /\ result.errors[j].expected = Nil
                        /\ result.errors[j].actual = in_x.fields[n].v
        /\ Cardinality({j \in DOMAIN result.errors :
                            result.errors[j].expected = Nil})
               = Cardinality(Undeclared)
        /\ (in_type.name = "StrictA"
            /\ in_x = Obj("Object", <<Field("a", Num(1)), Field("b", Num(2))>>)) =>
               /\ Len(result.errors) = 1
               /\ result.errors[1].path = Path0 \o <<Key("b")>>

\* strict comes from the options, over a descriptor that is not strict
C3_Witness ==
    /\ Returned /\ in_type.name = "Outer" /\ OptionsHas(in_options, "strict")
    /\ StrictInEffect
    /\ in_x = Obj("Object", <<Field("a", Num(1)), Field("b", Num(2))>>)
    /\ Len(result.errors) = 1
    /\ result.errors[1].path = <<Key("b")>>

(* ---------------------------------- C2 --------------------------------- *)

PropType(f) ==
    in_type.meta.props[CHOOSE i \in DOMAIN in_type.meta.props :
                            in_type.meta.props[i].name = f].type

\* the declared defaults of fields the input leaves undefined
MissingDefaults ==
    {i \in DOMAIN in_type.meta.defaultProps :
        Get(in_x, in_type.meta.defaultProps[i].k) = Undefined}

\* C2 as claimed: validating an object-shaped input in which a field f with
\* declared default d is missing yields a value whose field f equals d.
C2_DefaultIsValue ==
    (Returned /\ Kind = "struct" /\ ObjectIs(in_x)) =>
        \A i \in MissingDefaults :
            LET d == in_type.meta.defaultProps[i]
            IN Get(result.value, d.k) = d.v

\* C2 as amended: validating an object-shaped input that is not yet an
\* instance of the struct and in which a field f with declared default d is
\* missing yields a value whose field f is the result value of validating d
\* against f's descriptor at path+[f].
C2_DefaultIsValidated ==
    (Returned /\ Kind = "struct" /\ ObjectIs(in_x) /\ ~Is(in_type, in_x)) =>
        \A i \in MissingDefaults :
            LET d == in_type.meta.defaultProps[i]
            IN Get(result.value, d.k) = Child(d.v, PropType(d.k), Key(d.k)).value

\* the default {} of a struct-typed field comes back as an instance
C2_Witness ==
    /\ Returned /\ in_type.name = "Outer" /\ ObjectIs(in_x)
    /\ Get(in_x, "f") = Undefined
    /\ Get(result.value, "f") = Obj("Inner", <<Field("g", Num(0))>>)

(* ---------------------------------- C7 --------------------------------- *)

\* C7: when validate(v, T, options) is valid with value w, validate(w, T,
\* options) is valid too and its value equals w.
C7_Idempotent ==
    (pc \in {"revalidated", "rejected_again"} /\ isValid(result)) =>
        /\ pc = "revalidated"
        /\ isValid(again)
        /\ again.value = result.value

\* a valid result that differs from its input (defaults applied, instances
\* built) has been validated again
C7_Witness ==
    /\ pc = "revalidated" /\ isValid(result)
    /\ in_type.name = "Outer" /\ Get(in_x, "f") = Undefined
    /\ result.value # in_x
    /\ again = result

(* ---------------------------------- C8 --------------------------------- *)

Names(props) == [i \in DOMAIN props |-> props[i].name]
Keys(o) == [i \in DOMAIN o.fields |-> o.fields[i].k]

\* C8 as claimed: errors is empty exactly when isValid(), and with errors
\* the value is the original input.
C8_FailureKeepsInput ==
    Returned =>
        /\ (result.errors = <<>>) <=> isValid(result)
        /\ result.errors # <<>> => result.value = in_x

\* the value of a failed result, kind by kind
C8_FailureValue ==
    CASE Kind \in {"irreducible", "enums", "class", "intersection"} ->
            result.value = in_x
      [] Kind = "list" ->
            IF ~ArrayIs(in_x) THEN result.value = in_x
            ELSE result.value =
                    Arr([i \in DOMAIN ListElements |-> ListElements[i].value])
      [] Kind = "tuple" ->
            IF ~ArrayIs(in_x) \/ Len(in_x.items) > Len(in_type.meta.types)
            THEN result.value = in_x
            ELSE result.value =
                    Arr([i \in DOMAIN TupleSlots |-> TupleSlots[i].value])
      [] Kind \in {"struct", "interface"} ->
            IF ~ObjectIs(in_x) THEN result.value = in_x
            ELSE /\ result.value.cls = "Object"
                 /\ Keys(result.value) = Names(in_type.meta.props)
      [] Kind = "dict" ->
            IF ~ObjectIs(in_x) THEN result.value = in_x
            ELSE /\ result.value.cls = "Object"
                 /\ Keys(result.value) = Keys(in_x)
      [] Kind = "union" ->
            IF ~FunctionIs(UnionMember) THEN result.value = in_x
            ELSE result.value =
                    Child(in_x, UnionMember,
                          Idx(IndexOf(in_type.meta.types, UnionMember))).value
      [] Kind \in {"maybe", "subtype"} ->
            result.value = SubtypeInner.value

\* C8 as amended: errors is empty exactly when isValid(); with errors the
\* value is the original input where the validator fails without descending
\* (a leaf kind, a plain class, an intersection, a non-array given to a list
\* or tuple, an over-long tuple, a non-object given to a struct, interface or
\* dict, a union resolving no member); a list, tuple, dict, struct or
\* interface that descends returns the container rebuilt from its children's
\* result values (the struct left a plain object, not an instance), and a
\* maybe, subtype or resolved union returns the inner result's value.
C8_FailureValueByKind ==
    Returned =>
        /\ (result.errors = <<>>) <=> isValid(result)
        /\ result.errors # <<>> => C8_FailureValue

\* a failed struct whose value dropped the undeclared field and kept the
\* default, so it is not the input
C8_Witness ==
    /\ Returned /\ in_type.name = "Inner"
    /\ in_x = Obj("Object", <<Field("a", Num(1)), Field("b", Num(2))>>)
    /\ OptionsHas(in_options, "strict") /\ StrictInEffect
    /\ Len(result.errors) = 2
    /\ result.value = Obj("Object", <<Field("g", Num(0))>>)

(* ---------------------------------- C9 --------------------------------- *)

IsPrefix(p, q) == Len(p) <= Len(q) /\ SubSeq(q, 1, Len(p)) = p

\* C9 as claimed: from an empty initial path, in every call of recurse the
\* path length equals the nesting depth of the value inside the root value.
C9_PathIsDepth ==
    (pc # "start" /\ Path0 = <<>>) =>
        \A i \in DOMAIN calls : Len(calls[i].path) = calls[i].depth

\* C9 as amended: from an empty initial path, in every call of recurse the
\* path length equals the nesting depth of the value plus the number of
\* unions crossed on the way: the path grows by one segment per nesting
\* level (list index, tuple index, struct/interface field name, dict key),
\* by one segment (the resolved member's index) per union, and by nothing
\* else; every error carries the path of the call that reported it, or that
\* path extended by the undeclared field for a strict-mode error.
C9_PathIsDepthPlusUnions ==
    (pc # "start" /\ Path0 = <<>>) =>
        /\ \A i \in DOMAIN calls :
               Len(calls[i].path) = calls[i].depth + calls[i].unions
        /\ \A j \in DOMAIN result.errors :
               \E i \in DOMAIN calls :
                   \/ /\ result.errors[j].path = calls[i].path
                      /\ result.errors[j].expected = calls[i].type
                   \/ /\ result.errors[j].expected = Nil
                      /\ Len(result.errors[j].path) = Len(calls[i].path) + 1
                      /\ IsPrefix(calls[i].path, result.errors[j].path)
                      /\ IsType(calls[i].type)
                      /\ calls[i].type.meta.kind \in {"struct", "interface"}

\* a list element validated below a union: depth 1, yet a path of 2 segments
C9_Witness ==
    /\ Returned /\ Path0 = <<>> /\ in_type.name = "Shape"
    /\ \E i \in DOMAIN calls :
           /\ calls[i].depth = 1
           /\ calls[i].unions = 1
           /\ calls[i].path = <<Idx(0), Idx(0)>>

(* ---------------------------------- C10 -------------------------------- *)

\* C10: validate never throws: for every value and every descriptor built
\* from the recognized kinds and plain classes it returns a ValidationResult.
C10_NeverThrows == pc \notin {"rejected", "rejected_again"}

====
